---- MODULE Spec2Model ----
(***************************************************************************)
(* A model of pyquil/gates.py: the factory functions that build Quil       *)
(* instruction objects (gates, MEASURE, classical operations), the four    *)
(* module-level singleton instructions and the STANDARD_GATES dictionary.  *)
(*                                                                         *)
(* gates.py imports unpack_qubit / unpack_classical_reg (pyquil.quilatom)  *)
(* and the instruction classes (pyquil.quilbase).  Those two modules are   *)
(* modelled from their documented contracts; everything else is translated *)
(* from gates.py itself, one operator per def, with Python's left-to-right *)
(* evaluation and exception propagation made explicit: every evaluation    *)
(* yields a record [ok, value, error, log] where log is the sequence of    *)
(* normalizer invocations performed, in the order they were performed.     *)
(***************************************************************************)
EXTENDS Integers, Sequences, FiniteSets, TLC

VARIABLES
    args,            \* the three positional argument values callers pass
    call,            \* the most recent call: how it was made, of which function
    result,          \* what that call evaluated to (value or raised error, and log)
    held,            \* a reference some caller obtained earlier and still holds
    STANDARD_GATES,  \* module-level dictionary, gates.py:513
    WAIT,            \* module-level name, gates.py:391
    RESET,           \* module-level name, gates.py:398
    NOP,             \* module-level name, gates.py:404
    HALT             \* module-level name, gates.py:410

vars == <<args, call, result, held, STANDARD_GATES, WAIT, RESET, NOP, HALT>>

(***************************************************************************)
(* Bounds and the universe of Python values callers may pass.               *)
(***************************************************************************)
\* Largest integer index a caller passes (the smallest is -1, which the
\* normalizers reject).
MaxIndex == 1

\* A Python value: a tag and a payload.
V(t, v) == [t |-> t, v |-> v]

\* Python's None.
None == V("None", 0)

\* What callers pass: integers -1..MaxIndex, a qubit placeholder, a classical
\* register placeholder and a symbolic (non-numeric) expression.
Values ==
    {V("int", n) : n \in -1..MaxIndex}
        \cup {V("QubitPlaceholder", 0), V("RegisterPlaceholder", 0), V("Expression", 0)}

(***************************************************************************)
(* pyquil.quilatom: the two operand normalizers (contracts only).          *)
(***************************************************************************)
NoError == [kind |-> "none", by |-> "none", operand |-> None]

InvalidOperand(by, x) == [kind |-> "InvalidOperand", by |-> by, operand |-> x]

\* One invocation of a normalizer, as it appears in an evaluation's log.
NormCall(by, x) == [fn |-> by, arg |-> x]

unpack_qubit(x) ==
    IF x.t = "int" /\ x.v >= 0
    THEN [ok |-> TRUE, value |-> V("Qubit", x.v), error |-> NoError]
    ELSE IF x.t = "QubitPlaceholder"
    THEN [ok |-> TRUE, value |-> x, error |-> NoError]
    ELSE [ok |-> FALSE, value |-> None, error |-> InvalidOperand("unpack_qubit", x)]

unpack_classical_reg(x) ==
    IF x.t = "int" /\ x.v >= 0
    THEN [ok |-> TRUE, value |-> V("Addr", x.v), error |-> NoError]
    ELSE IF x.t = "RegisterPlaceholder"
    THEN [ok |-> TRUE, value |-> x, error |-> NoError]
    ELSE [ok |-> FALSE, value |-> None,
          error |-> InvalidOperand("unpack_classical_reg", x)]

(***************************************************************************)
(* pyquil.quilbase: the instruction classes (plain records of their        *)
(* fields).                                                                *)
(***************************************************************************)
Gate(name, params, qubits) ==
    [variant |-> "Gate", name |-> name, params |-> params, qubits |-> qubits]

Measurement(qubit, address) ==
    [variant |-> "Measurement", qubit |-> qubit, address |-> address]

ClassicalTrue(r) == [variant |-> "ClassicalTrue", target |-> r]
ClassicalFalse(r) == [variant |-> "ClassicalFalse", target |-> r]
ClassicalNot(r) == [variant |-> "ClassicalNot", target |-> r]
ClassicalAnd(l, r) == [variant |-> "ClassicalAnd", left |-> l, right |-> r]
ClassicalOr(l, r) == [variant |-> "ClassicalOr", left |-> l, right |-> r]
ClassicalMove(l, r) == [variant |-> "ClassicalMove", left |-> l, right |-> r]
ClassicalExchange(l, r) == [variant |-> "ClassicalExchange", left |-> l, right |-> r]
Wait == [variant |-> "Wait"]
Reset == [variant |-> "Reset"]
Nop == [variant |-> "Nop"]
Halt == [variant |-> "Halt"]

(***************************************************************************)
(* Evaluation results.                                                     *)
(***************************************************************************)
Returned(v, log) == [ok |-> TRUE, value |-> v, error |-> NoError, log |-> log]

Raised(e, log) == [ok |-> FALSE, value |-> None, error |-> e, log |-> log]

\* [unpack_qubit(q) for q in qs]: elements are normalized left to right and
\* the first exception ends the comprehension.
RECURSIVE UnpackQubits(_)
UnpackQubits(qs) ==
    IF qs = <<>>
    THEN Returned(<<>>, <<>>)
    ELSE LET h == unpack_qubit(Head(qs))
             c == NormCall("unpack_qubit", Head(qs))
         IN  IF ~h.ok
             THEN Raised(h.error, <<c>>)
             ELSE LET r == UnpackQubits(Tail(qs))
                  IN  IF r.ok
                      THEN Returned(<<h.value>> \o r.value, <<c>> \o r.log)
                      ELSE Raised(r.error, <<c>> \o r.log)

\* return Gate(name=..., params=..., qubits=[unpack_qubit(q) for q in ...]):
\* the keyword arguments are evaluated, then Gate is constructed.
ReturnGate(name, params, qs) ==
    LET u == UnpackQubits(qs)
    IN  IF u.ok THEN Returned(Gate(name, params, u.value), u.log)
        ELSE Raised(u.error, u.log)

(***************************************************************************)
(* gates.py: the gate constructors.                                        *)
(***************************************************************************)
I(qubit) == ReturnGate("I", <<>>, <<qubit>>)
X(qubit) == ReturnGate("X", <<>>, <<qubit>>)
Y(qubit) == ReturnGate("Y", <<>>, <<qubit>>)
Z(qubit) == ReturnGate("Z", <<>>, <<qubit>>)
H(qubit) == ReturnGate("H", <<>>, <<qubit>>)
S(qubit) == ReturnGate("S", <<>>, <<qubit>>)
T(qubit) == ReturnGate("T", <<>>, <<qubit>>)
RX(angle, qubit) == ReturnGate("RX", <<angle>>, <<qubit>>)
RY(angle, qubit) == ReturnGate("RY", <<angle>>, <<qubit>>)
RZ(angle, qubit) == ReturnGate("RZ", <<angle>>, <<qubit>>)
PHASE(angle, qubit) == ReturnGate("PHASE", <<angle>>, <<qubit>>)
CZ(control, target) == ReturnGate("CZ", <<>>, <<control, target>>)

\* A variant that refuses a gate whose control is its target.
CNOT_RejectsSameQubit(control, target) ==
    IF control = target
    THEN Raised([kind |-> "ValueError", by |-> "CNOT", operand |-> target], <<>>)
    ELSE ReturnGate("CNOT", <<>>, <<control, target>>)

CNOT(control, target) == ReturnGate("CNOT", <<>>, <<control, target>>)

CCNOT(control1, control2, target) ==
    ReturnGate("CCNOT", <<>>, <<control1, control2, target>>)

CPHASE00(angle, control, target) == ReturnGate("CPHASE00", <<angle>>, <<control, target>>)

\* A variant that lists the target before the control.
CPHASE01_TargetFirst(angle, control, target) ==
    ReturnGate("CPHASE01", <<angle>>, <<target, control>>)

CPHASE01(angle, control, target) == ReturnGate("CPHASE01", <<angle>>, <<control, target>>)
CPHASE10(angle, control, target) == ReturnGate("CPHASE10", <<angle>>, <<control, target>>)
CPHASE(angle, control, target) == ReturnGate("CPHASE", <<angle>>, <<control, target>>)
SWAP(q1, q2) == ReturnGate("SWAP", <<>>, <<q1, q2>>)
CSWAP(control, target_1, target_2) ==
    ReturnGate("CSWAP", <<>>, <<control, target_1, target_2>>)
ISWAP(q1, q2) == ReturnGate("ISWAP", <<>>, <<q1, q2>>)

\* A variant that forgets to pack the angle.
PSWAP_AngleDropped(angle, q1, q2) == ReturnGate("PSWAP", <<>>, <<q1, q2>>)

PSWAP(angle, q1, q2) == ReturnGate("PSWAP", <<angle>>, <<q1, q2>>)

(***************************************************************************)
(* gates.py: MEASURE and the classical-operation constructors.             *)
(***************************************************************************)
\* A variant that tests the register for truthiness instead of "is None".
MEASURE_Truthiness(qubit, classical_reg) ==
    LET q == unpack_qubit(qubit)
        c1 == NormCall("unpack_qubit", qubit)
    IN  IF ~q.ok THEN Raised(q.error, <<c1>>)
        ELSE IF classical_reg = None \/ classical_reg = V("int", 0)
        THEN Returned(Measurement(q.value, None), <<c1>>)
        ELSE LET r == unpack_classical_reg(classical_reg)
                 c2 == NormCall("unpack_classical_reg", classical_reg)
             IN  IF ~r.ok THEN Raised(r.error, <<c1, c2>>)
                 ELSE Returned(Measurement(q.value, r.value), <<c1, c2>>)

\* A variant that recovers from a rejected register by measuring without one.
MEASURE_SwallowsRegisterError(qubit, classical_reg) ==
    LET q == unpack_qubit(qubit)
        c1 == NormCall("unpack_qubit", qubit)
    IN  IF ~q.ok THEN Raised(q.error, <<c1>>)
        ELSE IF classical_reg = None
        THEN Returned(Measurement(q.value, None), <<c1>>)
        ELSE LET r == unpack_classical_reg(classical_reg)
                 c2 == NormCall("unpack_classical_reg", classical_reg)
             IN  IF ~r.ok THEN Returned(Measurement(q.value, None), <<c1, c2>>)
                 ELSE Returned(Measurement(q.value, r.value), <<c1, c2>>)

MEASURE(qubit, classical_reg) ==
    LET q == unpack_qubit(qubit)
        c1 == NormCall("unpack_qubit", qubit)
    IN  IF ~q.ok THEN Raised(q.error, <<c1>>)
        ELSE IF classical_reg = None
        THEN Returned(Measurement(q.value, None), <<c1>>)
        ELSE LET r == unpack_classical_reg(classical_reg)
                 c2 == NormCall("unpack_classical_reg", classical_reg)
             IN  IF ~r.ok THEN Raised(r.error, <<c1, c2>>)
                 ELSE Returned(Measurement(q.value, r.value), <<c1, c2>>)

TRUE_(classical_reg) ==
    LET r == unpack_classical_reg(classical_reg)
        c == NormCall("unpack_classical_reg", classical_reg)
    IN  IF r.ok THEN Returned(ClassicalTrue(r.value), <<c>>) ELSE Raised(r.error, <<c>>)

FALSE_(classical_reg) ==
    LET r == unpack_classical_reg(classical_reg)
        c == NormCall("unpack_classical_reg", classical_reg)
    IN  IF r.ok THEN Returned(ClassicalFalse(r.value), <<c>>) ELSE Raised(r.error, <<c>>)

NOT(classical_reg) ==
    LET r == unpack_classical_reg(classical_reg)
        c == NormCall("unpack_classical_reg", classical_reg)
    IN  IF r.ok THEN Returned(ClassicalNot(r.value), <<c>>) ELSE Raised(r.error, <<c>>)

\* A variant that normalizes the second register before the first.
AND_RightFirst(classical_reg1, classical_reg2) ==
    LET right == unpack_classical_reg(classical_reg2)
        c2 == NormCall("unpack_classical_reg", classical_reg2)
    IN  IF ~right.ok THEN Raised(right.error, <<c2>>)
        ELSE LET left == unpack_classical_reg(classical_reg1)
                 c1 == NormCall("unpack_classical_reg", classical_reg1)
             IN  IF ~left.ok THEN Raised(left.error, <<c2, c1>>)
                 ELSE Returned(ClassicalAnd(left.value, right.value), <<c2, c1>>)

AND(classical_reg1, classical_reg2) ==
    LET left == unpack_classical_reg(classical_reg1)
        c1 == NormCall("unpack_classical_reg", classical_reg1)
    IN  IF ~left.ok THEN Raised(left.error, <<c1>>)
        ELSE LET right == unpack_classical_reg(classical_reg2)
                 c2 == NormCall("unpack_classical_reg", classical_reg2)
             IN  IF ~right.ok THEN Raised(right.error, <<c1, c2>>)
                 ELSE Returned(ClassicalAnd(left.value, right.value), <<c1, c2>>)

OR(classical_reg1, classical_reg2) ==
    LET left == unpack_classical_reg(classical_reg1)
        c1 == NormCall("unpack_classical_reg", classical_reg1)
    IN  IF ~left.ok THEN Raised(left.error, <<c1>>)
        ELSE LET right == unpack_classical_reg(classical_reg2)
                 c2 == NormCall("unpack_classical_reg", classical_reg2)
             IN  IF ~right.ok THEN Raised(right.error, <<c1, c2>>)
                 ELSE Returned(ClassicalOr(left.value, right.value), <<c1, c2>>)

\* A variant that passes the two normalized registers the wrong way round.
MOVE_Swapped(classical_reg1, classical_reg2) ==
    LET left == unpack_classical_reg(classical_reg1)
        c1 == NormCall("unpack_classical_reg", classical_reg1)
    IN  IF ~left.ok THEN Raised(left.error, <<c1>>)
        ELSE LET right == unpack_classical_reg(classical_reg2)
                 c2 == NormCall("unpack_classical_reg", classical_reg2)
             IN  IF ~right.ok THEN Raised(right.error, <<c1, c2>>)
                 ELSE Returned(ClassicalMove(right.value, left.value), <<c1, c2>>)

MOVE(classical_reg1, classical_reg2) ==
    LET left == unpack_classical_reg(classical_reg1)
        c1 == NormCall("unpack_classical_reg", classical_reg1)
    IN  IF ~left.ok THEN Raised(left.error, <<c1>>)
        ELSE LET right == unpack_classical_reg(classical_reg2)
                 c2 == NormCall("unpack_classical_reg", classical_reg2)
             IN  IF ~right.ok THEN Raised(right.error, <<c1, c2>>)
                 ELSE Returned(ClassicalMove(left.value, right.value), <<c1, c2>>)

EXCHANGE(classical_reg1, classical_reg2) ==
    LET left == unpack_classical_reg(classical_reg1)
        c1 == NormCall("unpack_classical_reg", classical_reg1)
    IN  IF ~left.ok THEN Raised(left.error, <<c1>>)
        ELSE LET right == unpack_classical_reg(classical_reg2)
                 c2 == NormCall("unpack_classical_reg", classical_reg2)
             IN  IF ~right.ok THEN Raised(right.error, <<c1, c2>>)
                 ELSE Returned(ClassicalExchange(left.value, right.value), <<c1, c2>>)

(***************************************************************************)
(* gates.py: module-level objects, as bound when the module is loaded.     *)
(***************************************************************************)
InitWAIT == Wait
InitRESET == Reset
InitNOP == Nop

\* A variant that binds HALT to an instance of the wrong class.
InitHALT_IsNop == Nop

InitHALT == Halt

\* A variant of the dictionary literal with one value copied from its neighbour.
InitSTANDARD_GATES_PhaseIsRZ ==
    "I" :> "I" @@ "X" :> "X" @@ "Y" :> "Y" @@ "Z" :> "Z" @@ "H" :> "H"
    @@ "S" :> "S" @@ "T" :> "T" @@ "PHASE" :> "RZ" @@ "RX" :> "RX"
    @@ "RY" :> "RY" @@ "RZ" :> "RZ" @@ "CZ" :> "CZ" @@ "CNOT" :> "CNOT"
    @@ "CCNOT" :> "CCNOT" @@ "CPHASE00" :> "CPHASE00" @@ "CPHASE01" :> "CPHASE01"
    @@ "CPHASE10" :> "CPHASE10" @@ "CPHASE" :> "CPHASE" @@ "SWAP" :> "SWAP"
    @@ "CSWAP" :> "CSWAP" @@ "ISWAP" :> "ISWAP" @@ "PSWAP" :> "PSWAP"

\* The dictionary literal: key string :> the function object bound to it,
\* a function object being identified by the name of its def.
InitSTANDARD_GATES ==
    "I" :> "I" @@ "X" :> "X" @@ "Y" :> "Y" @@ "Z" :> "Z" @@ "H" :> "H"
    @@ "S" :> "S" @@ "T" :> "T" @@ "PHASE" :> "PHASE" @@ "RX" :> "RX"
    @@ "RY" :> "RY" @@ "RZ" :> "RZ" @@ "CZ" :> "CZ" @@ "CNOT" :> "CNOT"
    @@ "CCNOT" :> "CCNOT" @@ "CPHASE00" :> "CPHASE00" @@ "CPHASE01" :> "CPHASE01"
    @@ "CPHASE10" :> "CPHASE10" @@ "CPHASE" :> "CPHASE" @@ "SWAP" :> "SWAP"
    @@ "CSWAP" :> "CSWAP" @@ "ISWAP" :> "ISWAP" @@ "PSWAP" :> "PSWAP"

\* The defs of the module that build gates, and those that build the rest.
GateFunctions ==
    {"I", "X", "Y", "Z", "H", "S", "T", "RX", "RY", "RZ", "PHASE", "CZ", "CNOT",
     "CCNOT", "CPHASE00", "CPHASE01", "CPHASE10", "CPHASE", "SWAP", "CSWAP",
     "ISWAP", "PSWAP"}

OtherFunctions == {"MEASURE", "TRUE", "FALSE", "NOT", "AND", "OR", "MOVE", "EXCHANGE"}

\* The number of positional parameters in each def's signature.
NArgs(f) ==
    CASE f \in {"I", "X", "Y", "Z", "H", "S", "T", "TRUE", "FALSE", "NOT"} -> 1
      [] f \in {"RX", "RY", "RZ", "PHASE", "CZ", "CNOT", "SWAP", "ISWAP",
                "MEASURE", "AND", "OR", "MOVE", "EXCHANGE"} -> 2
      [] f \in {"CCNOT", "CPHASE00", "CPHASE01", "CPHASE10", "CPHASE", "CSWAP",
                "PSWAP"} -> 3

\* Calling function object f with the first n of the positional values a
\* (MEASURE called with one argument takes its default classical_reg=None).
Invoke(f, a, n) ==
    CASE f = "I" -> I(a[1])
      [] f = "X" -> X(a[1])
      [] f = "Y" -> Y(a[1])
      [] f = "Z" -> Z(a[1])
      [] f = "H" -> H(a[1])
      [] f = "S" -> S(a[1])
      [] f = "T" -> T(a[1])
      [] f = "RX" -> RX(a[1], a[2])
      [] f = "RY" -> RY(a[1], a[2])
      [] f = "RZ" -> RZ(a[1], a[2])
      [] f = "PHASE" -> PHASE(a[1], a[2])
      [] f = "CZ" -> CZ(a[1], a[2])
      [] f = "CNOT" -> CNOT(a[1], a[2])
      [] f = "CCNOT" -> CCNOT(a[1], a[2], a[3])
      [] f = "CPHASE00" -> CPHASE00(a[1], a[2], a[3])
      [] f = "CPHASE01" -> CPHASE01(a[1], a[2], a[3])
      [] f = "CPHASE10" -> CPHASE10(a[1], a[2], a[3])
      [] f = "CPHASE" -> CPHASE(a[1], a[2], a[3])
      [] f = "SWAP" -> SWAP(a[1], a[2])
      [] f = "CSWAP" -> CSWAP(a[1], a[2], a[3])
      [] f = "ISWAP" -> ISWAP(a[1], a[2])
      [] f = "PSWAP" -> PSWAP(a[1], a[2], a[3])
      [] f = "MEASURE" -> IF n = 1 THEN MEASURE(a[1], None) ELSE MEASURE(a[1], a[2])
      [] f = "TRUE" -> TRUE_(a[1])
      [] f = "FALSE" -> FALSE_(a[1])
      [] f = "NOT" -> NOT(a[1])
      [] f = "AND" -> AND(a[1], a[2])
      [] f = "OR" -> OR(a[1], a[2])
      [] f = "MOVE" -> MOVE(a[1], a[2])
      [] f = "EXCHANGE" -> EXCHANGE(a[1], a[2])

(***************************************************************************)
(* The state machine: the module is loaded, then callers call its          *)
(* functions (directly or through STANDARD_GATES), and may keep a          *)
(* reference to a returned instruction or to one of the four constants.    *)
(***************************************************************************)
NoCall == [via |-> "none", key |-> "none", fn |-> "none", nargs |-> 0]

NoResult == [ok |-> FALSE, value |-> None, error |-> NoError, log |-> <<>>]

NoRef == [from |-> "none", value |-> None]

Constants == {"WAIT", "RESET", "NOP", "HALT"}

\* The object a module-level constant name is bound to right now.
Lookup(c) ==
    CASE c = "WAIT" -> WAIT
      [] c = "RESET" -> RESET
      [] c = "NOP" -> NOP
      [] c = "HALT" -> HALT

Init ==
    /\ args \in {<<a, b, c>> : a \in Values, b \in Values, c \in Values}
    /\ call = NoCall
    /\ result = NoResult
    /\ held = NoRef
    /\ STANDARD_GATES = InitSTANDARD_GATES
    /\ WAIT = InitWAIT
    /\ RESET = InitRESET
    /\ NOP = InitNOP
    /\ HALT = InitHALT

\* A variant in which the constructors hand out one shared instruction
\* object, so that a later call overwrites an instruction returned earlier.
CallDirect_SharedObject ==
    \E f \in GateFunctions \cup OtherFunctions :
        \E n \in (IF f = "MEASURE" THEN {1, 2} ELSE {NArgs(f)}) :
            /\ call' = [via |-> "direct", key |-> f, fn |-> f, nargs |-> n]
            /\ result' = Invoke(f, args, n)
            /\ held' = IF held.from = "call" /\ result'.ok
                       THEN [held EXCEPT !.value = result'.value]
                       ELSE held
            /\ UNCHANGED <<args, STANDARD_GATES, WAIT, RESET, NOP, HALT>>

\* f(*args) for a module-level def f.
CallDirect ==
    \E f \in GateFunctions \cup OtherFunctions :
        \E n \in (IF f = "MEASURE" THEN {1, 2} ELSE {NArgs(f)}) :
            /\ call' = [via |-> "direct", key |-> f, fn |-> f, nargs |-> n]
            /\ result' = Invoke(f, args, n)
            /\ UNCHANGED <<args, held, STANDARD_GATES, WAIT, RESET, NOP, HALT>>

\* STANDARD_GATES[k](*args).
CallRegistry ==
    \E k \in DOMAIN STANDARD_GATES :
        LET f == STANDARD_GATES[k]
        IN  /\ call' = [via |-> "STANDARD_GATES", key |-> k, fn |-> f,
                        nargs |-> NArgs(f)]
            /\ result' = Invoke(f, args, NArgs(f))
            /\ UNCHANGED <<args, held, STANDARD_GATES, WAIT, RESET, NOP, HALT>>

\* The caller keeps the instruction the last call returned.
Retain ==
    /\ held = NoRef
    /\ result.ok
    /\ held' = [from |-> "call", value |-> result.value]
    /\ UNCHANGED <<args, call, result, STANDARD_GATES, WAIT, RESET, NOP, HALT>>

\* The caller reads one of the four module-level constants and keeps it.
Obtain ==
    /\ held = NoRef
    /\ \E c \in Constants : held' = [from |-> c, value |-> Lookup(c)]
    /\ UNCHANGED <<args, call, result, STANDARD_GATES, WAIT, RESET, NOP, HALT>>

\* The caller drops the reference it holds.
Release ==
    /\ held # NoRef
    /\ held' = NoRef
    /\ UNCHANGED <<args, call, result, STANDARD_GATES, WAIT, RESET, NOP, HALT>>

\* Callers that only call.
Next == CallDirect \/ CallRegistry

Spec == Init /\ [][Next]_vars

\* Callers that also keep references across calls.
NextModule == CallDirect \/ CallRegistry \/ Retain \/ Obtain \/ Release

SpecModule == Init /\ [][NextModule]_vars

(***************************************************************************)
(* The documented catalog and operand lists the properties are stated      *)
(* against.                                                                *)
(***************************************************************************)
\* mnemonic :> <<qubit arity, parameter arity>>
DocArity ==
    "I" :> <<1, 0>> @@ "X" :> <<1, 0>> @@ "Y" :> <<1, 0>> @@ "Z" :> <<1, 0>>
    @@ "H" :> <<1, 0>> @@ "S" :> <<1, 0>> @@ "T" :> <<1, 0>>
    @@ "RX" :> <<1, 1>> @@ "RY" :> <<1, 1>> @@ "RZ" :> <<1, 1>> @@ "PHASE" :> <<1, 1>>
    @@ "CZ" :> <<2, 0>> @@ "CNOT" :> <<2, 0>> @@ "CCNOT" :> <<3, 0>>
    @@ "CPHASE00" :> <<2, 1>> @@ "CPHASE01" :> <<2, 1>> @@ "CPHASE10" :> <<2, 1>>
    @@ "CPHASE" :> <<2, 1>> @@ "SWAP" :> <<2, 0>> @@ "CSWAP" :> <<3, 0>>
    @@ "ISWAP" :> <<2, 0>> @@ "PSWAP" :> <<2, 1>>

Mnemonics == DOMAIN DocArity
QubitArity(m) == DocArity[m][1]
ParamArity(m) == DocArity[m][2]

DocVariant ==
    "TRUE" :> "ClassicalTrue" @@ "FALSE" :> "ClassicalFalse" @@ "NOT" :> "ClassicalNot"
    @@ "AND" :> "ClassicalAnd" @@ "OR" :> "ClassicalOr" @@ "MOVE" :> "ClassicalMove"
    @@ "EXCHANGE" :> "ClassicalExchange"

UnaryClassical == {"TRUE", "FALSE", "NOT"}
BinaryClassical == {"AND", "OR", "MOVE", "EXCHANGE"}

\* The qubit and register operands of a call of the function documented under
\* name m with n positional arguments, in argument order, each with the
\* normalizer it is owed.
DocOperands(m, n) ==
    IF m \in Mnemonics
    THEN [i \in 1..QubitArity(m) |-> NormCall("unpack_qubit", args[ParamArity(m) + i])]
    ELSE IF m = "MEASURE"
    THEN IF n = 1
         THEN <<NormCall("unpack_qubit", args[1])>>
         ELSE <<NormCall("unpack_qubit", args[1]),
                NormCall("unpack_classical_reg", args[2])>>
    ELSE IF m \in UnaryClassical
    THEN <<NormCall("unpack_classical_reg", args[1])>>
    ELSE <<NormCall("unpack_classical_reg", args[1]),
           NormCall("unpack_classical_reg", args[2])>>

\* What the normalizer answers for one operand.
Norm(op) ==
    IF op.fn = "unpack_qubit" THEN unpack_qubit(op.arg) ELSE unpack_classical_reg(op.arg)

Called == call.fn # "none"
Direct == call.via = "direct"
Ops == DocOperands(call.key, call.nargs)
AllAccepted == \A i \in 1..Len(Ops) : Norm(Ops[i]).ok
Rejected == {i \in 1..Len(Ops) : ~Norm(Ops[i]).ok}
FirstRejected == CHOOSE i \in Rejected : \A j \in Rejected : i <= j

(***************************************************************************)
(* Properties.                                                             *)
(***************************************************************************)
\* C1: for each of the 22 catalog mnemonics, a direct call of its constructor
\* with qubit operands the normalizer accepts returns a Gate whose name is the
\* mnemonic and whose qubits and params have the documented lengths.
C1_GateShape ==
    /\ Cardinality(Mnemonics) = 22
    /\ (Called /\ Direct /\ call.key \in Mnemonics /\ AllAccepted) =>
          /\ result.ok
          /\ result.value.variant = "Gate"
          /\ result.value.name = call.key
          /\ Len(result.value.qubits) = QubitArity(call.key)
          /\ Len(result.value.params) = ParamArity(call.key)

C1_Witness ==
    /\ Direct /\ call.key = "PSWAP" /\ result.ok
    /\ Len(result.value.qubits) = 2 /\ Len(result.value.params) = 1

\* C2: STANDARD_GATES has exactly the 22 catalog mnemonics as keys, and a call
\* through key k has the same outcome as a direct call of the constructor named
\* k with the same arguments; a Gate returned through key k has name k.
C2_RegistryEquivalence ==
    /\ DOMAIN STANDARD_GATES = Mnemonics
    /\ (Called /\ call.via = "STANDARD_GATES") =>
          /\ result = Invoke(call.key, args, NArgs(call.key))
          /\ result.ok => (result.value.variant = "Gate" /\ result.value.name = call.key)

C2_Witness ==
    /\ call.via = "STANDARD_GATES" /\ call.key = "PHASE" /\ result.ok
    /\ result.value.name = "PHASE"

\* C3: a gate constructor lists the normalized qubits in the order of its qubit
\* arguments, packs the angle unchanged as the only parameter (no parameter for
\* the gates without an angle), and passes only qubit arguments, never the
\* angle, to the qubit normalizer.
C3_OperandOrder ==
    (Called /\ Direct /\ call.key \in Mnemonics) =>
        /\ Len(result.log) <= Len(Ops)
        /\ \A i \in 1..Len(result.log) : result.log[i] = Ops[i]
        /\ result.ok =>
              /\ Len(result.value.qubits) = Len(Ops)
              /\ \A i \in 1..Len(Ops) : result.value.qubits[i] = Norm(Ops[i]).value
              /\ result.value.params =
                    (IF ParamArity(call.key) = 1 THEN <<args[1]>> ELSE <<>>)

C3_Witness ==
    /\ Direct /\ call.key = "CPHASE01" /\ result.ok
    /\ ~unpack_qubit(args[1]).ok
    /\ result.value.params = <<args[1]>>
    /\ result.value.qubits[1] # result.value.qubits[2]

\* C4: MEASURE(q) returns a Measurement of the normalized q with no address and
\* never invokes the register normalizer; MEASURE(q, r) returns one whose
\* address is the normalized r, also for r = 0; the address is absent exactly
\* when the register argument was.
C4_Measure ==
    (Called /\ Direct /\ call.key = "MEASURE") =>
        LET q == unpack_qubit(args[1])
            r == unpack_classical_reg(args[2])
        IN  /\ (call.nargs = 1 /\ q.ok) =>
                  (result.ok /\ result.value = Measurement(q.value, None))
            /\ call.nargs = 1 =>
                  (\A i \in 1..Len(result.log) : result.log[i].fn # "unpack_classical_reg")
            /\ (call.nargs = 2 /\ q.ok /\ r.ok) =>
                  (result.ok /\ result.value = Measurement(q.value, r.value))
            /\ result.ok => (result.value.address = None <=> call.nargs = 1)

C4_Witness ==
    /\ Direct /\ call.key = "MEASURE" /\ call.nargs = 2 /\ result.ok
    /\ args[2] = V("int", 0)
    /\ result.value.address = V("Addr", 0)

\* C5: each classical-operation constructor returns the variant of its own name
\* carrying the normalized registers in argument order.
C5_ClassicalOps ==
    (Called /\ Direct /\ call.key \in UnaryClassical \cup BinaryClassical /\ AllAccepted) =>
        /\ result.ok
        /\ result.value.variant = DocVariant[call.key]
        /\ call.key \in UnaryClassical =>
              result.value.target = unpack_classical_reg(args[1]).value
        /\ call.key \in BinaryClassical =>
              /\ result.value.left = unpack_classical_reg(args[1]).value
              /\ result.value.right = unpack_classical_reg(args[2]).value

C5_Witness ==
    /\ Direct /\ call.key = "MOVE" /\ result.ok
    /\ result.value.left # result.value.right
    /\ result.value.left = unpack_classical_reg(args[1]).value

\* C6: when the normalizer rejects any operand of a call, in any position, the
\* call raises the normalizer's own InvalidOperand and returns no instruction.
C6_RejectionPropagates ==
    (Called /\ ~AllAccepted) =>
        /\ ~result.ok
        /\ result.value = None
        /\ result.error.kind = "InvalidOperand"
        /\ \E i \in Rejected : result.error = Norm(Ops[i]).error

C6_Witness ==
    /\ Direct /\ call.key = "MEASURE" /\ call.nargs = 2
    /\ unpack_qubit(args[1]).ok /\ ~unpack_classical_reg(args[2]).ok
    /\ ~result.ok /\ result.error.by = "unpack_classical_reg"

\* C9: operands are normalized in argument order up to and including the first
\* one rejected, whose failure is the one reported; later operands are never
\* normalized.
C9_ArgumentOrder ==
    Called =>
        IF AllAccepted
        THEN result.log = Ops
        ELSE /\ result.log = SubSeq(Ops, 1, FirstRejected)
             /\ result.error = Norm(Ops[FirstRejected]).error

C9_Witness ==
    /\ Direct /\ call.key = "AND" /\ Rejected = {1, 2}
    /\ args[1] # args[2]
    /\ result.error.operand = args[1] /\ Len(result.log) = 1

\* C10: a call whose qubit and register operands are all accepted succeeds,
\* whatever the angle and even with one operand passed twice; a failing call
\* fails with InvalidOperand and nothing else.
C10_OnlyNormalizerFails ==
    Called =>
        /\ AllAccepted => result.ok
        /\ ~result.ok => result.error.kind = "InvalidOperand"

C10_Witness ==
    /\ Direct /\ call.key = "CNOT" /\ args[1] = args[2] /\ result.ok

\* C7: WAIT, RESET, NOP and HALT are instances of Wait, Reset, Nop and Halt, and
\* a reference to one of them obtained earlier equals what the name denotes
\* now, whatever calls were made in between.
C7_Singletons ==
    /\ WAIT.variant = "Wait" /\ RESET.variant = "Reset"
    /\ NOP.variant = "Nop" /\ HALT.variant = "Halt"
    /\ held.from \in Constants => held.value = Lookup(held.from)

C7_Witness ==
    /\ held.from = "HALT" /\ held.value = Halt
    /\ call.via = "STANDARD_GATES" /\ result.ok

\* C8: no call, successful or failing, direct or through STANDARD_GATES, changes
\* the dictionary or the four constants, which keep their values of module
\* load, and an instruction returned earlier stays as it was returned.
C8_Frame ==
    /\ [](/\ STANDARD_GATES = InitSTANDARD_GATES
          /\ WAIT = InitWAIT /\ RESET = InitRESET
          /\ NOP = InitNOP /\ HALT = InitHALT)
    /\ [][/\ STANDARD_GATES' = STANDARD_GATES
          /\ <<WAIT, RESET, NOP, HALT>>' = <<WAIT, RESET, NOP, HALT>>
          /\ (held.from = "call" /\ held'.from = "call") => held'.value = held.value]_vars

C8_Witness ==
    /\ held.from = "call" /\ held.value.variant = "Gate"
    /\ Called /\ ~result.ok

====
